---------------------------- MODULE Spec2Model ----------------------------
(***************************************************************************)
(* The request pipeline of package capture (go-janrain): Client.Execute /  *)
(* Client.ExecuteAuth, Client.merge, Params.formValues, the Authorization  *)
(* strategies, prepare and Client.perform.                                 *)
(*                                                                         *)
(* The source tree holds two revisions of client.go.  The later one,       *)
(* src/unnamed/part_000, hands the caller's header to merge and compares   *)
(* the media type of Content-Type; it is the one modelled.  The earlier    *)
(* one, src/capture/client.go, is modelled where it alone defines an       *)
(* operation (Default, DefaultClear); what its merge and perform do        *)
(* instead is kept as mergeHeaderEarlier and mimeEarlier.                  *)
(*                                                                         *)
(* Text is modelled as a sequence of atoms (one-character strings for the  *)
(* method path, tokens for a Content-Type value); Go values that may be    *)
(* absent are records with a field kind, Nil being [kind |-> "nil"].       *)
(***************************************************************************)
EXTENDS Integers, Sequences, FiniteSets, TLC

VARIABLES client, call, lastDefault, app

vars == <<client, call, lastDefault, app>>

-----------------------------------------------------------------------------
(* Bounds of the model. *)

\* longest method path, in characters
MaxLen == 2
\* number of parameter keys drawn from ParamKeyList
MaxKeys == 2
\* longest Content-Type header value, in tokens
MaxCtLen == 4
\* the operands of And and Or
MaxFilters == 3

-----------------------------------------------------------------------------
(* Values. *)

Nil == [kind |-> "nil"]

Calls == {1}

EmptyMap == [k \in {} |-> Nil]

\* m[k] = v of a Go map: the key is added or its value replaced.
MapSet(m, k, v) == [x \in DOMAIN m \cup {k} |-> IF x = k THEN v ELSE m[x]]

\* a delete that leaves the key in the map
MapDeleteKeeps(m, k) == m

\* delete(m, k) of a Go map.
MapDelete(m, k) == [x \in DOMAIN m \ {k} |-> m[x]]

\* for k, v := range src { dst[k] = v }
MapCopyInto(dst, src) ==
  [x \in DOMAIN dst \cup DOMAIN src |-> IF x \in DOMAIN src THEN src[x] ELSE dst[x]]

\* every map from a subset of keys to vals
Maps(keys, vals) == UNION {[d -> vals] : d \in SUBSET keys}

\* every sequence over alphabet of length at most n
SeqsUpTo(alphabet, n) == UNION {[1..k -> alphabet] : k \in 0..n}

\* parameter values: a Go string; a number and a filter.Filter (a named string
\* type), which are no Go string and marshal; a channel, which encoding/json
\* cannot marshal
StrVal(s) == [kind |-> "string", s |-> s]
NumVal(n) == [kind |-> "number", n |-> n]
FilterVal(s) == [kind |-> "filter.Filter", s |-> s]
ChanVal == [kind |-> "chan"]

ParamKeyList == <<"type_name", "client_id", "filter", "max_results">>
ParamKeys == {ParamKeyList[i] : i \in 1..(IF MaxKeys < Len(ParamKeyList) THEN MaxKeys ELSE Len(ParamKeyList))}
ParamValues == {StrVal("user"), FilterVal("user"), NumVal(3), ChanVal}

\* header values ([]string of one element, as Header.Set leaves them)
HdrVal(s) == [kind |-> "string", s |-> s]
HeaderKeys == {"Authorization", "X-Trace"}
HeaderValues == {HdrVal("u"), HdrVal("v")}


-----------------------------------------------------------------------------
(* Params.formValues: the form encoding of a parameter map. *)

\* json.Marshal of a non-string parameter value: the JSON text, or an error
\* for a value that has no JSON form.
jsonMarshal(v) ==
  CASE v.kind = "number" -> [err |-> Nil, text |-> ToString(v.n)]
    [] v.kind \in {"string", "filter.Filter"} -> [err |-> Nil, text |-> "\"" \o v.s \o "\""]
    [] OTHER -> [err |-> [kind |-> "json.UnsupportedTypeError"], text |-> ""]

\* a formValue that marshals every value, a Go string too
formValueMarshalsAll(v) == jsonMarshal(v)

\* val, ok := v.(string); if !ok { p, err := json.Marshal(v); val = string(p) }
formValue(v) ==
  IF v.kind = "string" THEN [err |-> Nil, text |-> v.s] ELSE jsonMarshal(v)

\* the loop of formValues: the first value that does not marshal ends it with
\* (nil, err); otherwise every key is Set to its one form value.
formValues(ps) ==
  IF \E k \in DOMAIN ps : formValue(ps[k]).err /= Nil
    THEN [err |-> formValue(ps[CHOOSE k \in DOMAIN ps : formValue(ps[k]).err /= Nil]).err,
          vals |-> EmptyMap]
    ELSE [err |-> Nil, vals |-> [k \in DOMAIN ps |-> formValue(ps[k]).text]]

-----------------------------------------------------------------------------
(* Client.merge: the endpoint, the merged header, the merged parameters. *)

\* an endpoint that is always given the separating slash
endpointAlwaysSlash(baseurl, method) == baseurl \o <<"/">> \o method

\* endpoint := baseurl; if method[0] != '/' { endpoint += "/" }; endpoint += method
\* (method[0] of the empty string is a run-time panic: see Merge)
endpointOf(baseurl, method) ==
  IF method[1] /= "/" THEN baseurl \o <<"/">> \o method ELSE baseurl \o method

HexDigits == {"0", "1", "2", "3", "4", "5", "6", "7", "8", "9",
              "a", "b", "c", "d", "e", "f", "A", "B", "C", "D", "E", "F"}

\* url.Parse rejects a '%' that is not followed by two hexadecimal digits.
invalidEscape(text) ==
  \E i \in 1..Len(text) :
    /\ text[i] = "%"
    /\ ~(i + 2 <= Len(text) /\ text[i + 1] \in HexDigits /\ text[i + 2] \in HexDigits)

\* the scheme and authority of a base URL are one atom of the text
Origins == {"https://x"}

\* unescape(s, encodePath): the one valid escape of the inputs is the atom
\* "%3A", an escaped colon (no method of the inputs holds a hexadecimal
\* digit, so no other escape is valid)
unescape(text) == [i \in DOMAIN text |-> IF text[i] = "%3A" THEN ":" ELSE text[i]]

\* url.Parse(endpoint): an error, or the URL as its scheme and authority and
\* its Path. Path is the text after them with its escapes decoded. A text
\* that begins with ':' has no scheme to stand before the colon.
urlParse(endpoint) ==
  IF invalidEscape(endpoint) \/ (Len(endpoint) > 0 /\ endpoint[1] = ":")
    THEN [err |-> [kind |-> "url.Error"], uri |-> Nil]
    ELSE [err |-> Nil,
          uri |-> IF Len(endpoint) > 0 /\ endpoint[1] \in Origins
                    THEN [kind |-> "url", Origin |-> <<endpoint[1]>>,
                          Path |-> unescape(Tail(endpoint))]
                    ELSE [kind |-> "url", Origin |-> <<>>, Path |-> unescape(endpoint)]]

\* the escaped form of a Path: a space is written as %20, the other
\* characters of the inputs as they are (a colon too: escape(path,
\* encodePath) of the net/url the program was written for leaves it, and
\* URL.String() puts nothing before a Path that begins with one)
RECURSIVE escapePath(_)
escapePath(path) ==
  IF path = <<>> THEN <<>>
  ELSE (IF Head(path) = " " THEN <<"%", "2", "0">> ELSE <<Head(path)>>)
         \o escapePath(Tail(path))

\* uri.String(): scheme and authority, then the escaped Path
urlString(uri) == uri.Origin \o escapePath(uri.Path)

\* the earlier revision: merge is not given the caller's header; only the
\* client's header is copied
mergeHeaderEarlier(clientHeader, header) ==
  MapCopyInto(EmptyMap, clientHeader)

\* mergedheader: the client's header copied into a fresh map, then the caller's
mergeHeader(clientHeader, header) ==
  MapCopyInto(MapCopyInto(EmptyMap, clientHeader), header)

\* a merge in which the client's params are copied last
mergeParamsDefaultsLast(clientParams, params) ==
  MapCopyInto(MapCopyInto(EmptyMap, params), clientParams)

\* mergedparams: the client's params copied, then the call's
mergeParams(clientParams, params) ==
  MapCopyInto(MapCopyInto(EmptyMap, clientParams), params)

\* Go maps are references.  The map that merge fills as mergedheader, and
\* that Authorize and prepare then write to, is one of: a map of its own
\* ("new"), the client's default header ("client.header"), the caller's
\* header argument ("header").  Likewise mergedparams: "new",
\* "client.params" or "params".

\* a merge that fills the client's own header: mergedheader := client.header
mergedHeaderObjectClients(clientHeader, header) == "client.header"

\* mergedheader := make(http.Header)
mergedHeaderObject(clientHeader, header) == "new"

\* a merge that adds the call's parameters to the client's own map:
\* mergedparams := client.params
mergedParamsObjectClients(clientParams, params) == "client.params"

\* mergedparams := make(Params, len(client.params)+len(params))
mergedParamsObject(clientParams, params) == "new"

\* the client's maps after a call wrote header h and params ps to the maps
\* hobj and pobj
clientAfterWrite(cl, hobj, h, pobj, ps) ==
  [cl EXCEPT !.header = IF hobj = "client.header" THEN h ELSE @,
             !.params = IF pobj = "client.params" THEN ps ELSE @]

\* the caller's header argument after a call wrote header h to the map hobj
argAfterWrite(arg, obj, argName, m) == IF obj = argName THEN m ELSE arg

\* the header a call reads from the map hobj
loadHeader(cl, frame) ==
  CASE frame.hobj = "client.header" -> cl.header
    [] frame.hobj = "header" -> frame.header
    [] OTHER -> frame.mheader

\* the results of merge after the endpoint was built: (uri, header, values, err)
merge(c, method, header, params) ==
  LET parsed == urlParse(endpointOf(c.baseurl, method))
      mergedparams == mergeParams(c.params, params)
      fv == formValues(mergedparams)
  IN  IF parsed.err /= Nil
        THEN [err |-> parsed.err, uri |-> Nil, header |-> EmptyMap,
              values |-> EmptyMap, mergedparams |-> EmptyMap]
      ELSE IF fv.err /= Nil
        THEN [err |-> fv.err, uri |-> Nil, header |-> EmptyMap,
              values |-> EmptyMap, mergedparams |-> mergedparams]
      ELSE [err |-> Nil, uri |-> parsed.uri,
            header |-> mergeHeader(c.header, header),
            values |-> fv.vals, mergedparams |-> mergedparams]

-----------------------------------------------------------------------------
(* Authorization strategies (auth.go). *)

AccessToken == [kind |-> "AccessToken", token |-> "tok"]
ClientCredentials == [kind |-> "ClientCredentials", Id |-> "myclientid", Secret |-> "myclientsecret"]
ClientCredentialsSimple == [kind |-> "ClientCredentialsSimple", Id |-> "myclientid", Secret |-> "myclientsecret"]
\* any other implementation of the interface Authorization; its Authorize may
\* return an error
OtherAuthorization == [kind |-> "OtherAuthorization"]

Strategies == {AccessToken, ClientCredentials, ClientCredentialsSimple, OtherAuthorization}

\* time.Now().UTC().Format("2006-01-02 15:04:05")
Timestamps == {"2013-06-07 10:00:00", "2013-06-07 10:00:01"}

\* the keys of form values in byte order (the order of sort.Strings on the
\* "key=value" texts: no key is a prefix of another)
KeyOrder == <<"client_id", "client_secret", "filter", "max_results", "type_name">>

keyRank(k) == CHOOSE i \in 1..Len(KeyOrder) : KeyOrder[i] = k

\* fmt.Sprintf("%s=%s", k, v): not url encoded
paramLine(k, v) == [k |-> k, text |-> k \o "=" \o v]

\* sort.Strings(ps), by insertion
RECURSIVE sortStrings(_)
sortStrings(ps) ==
  IF Len(ps) <= 1 THEN ps
  ELSE LET rest == sortStrings(Tail(ps))
           x == Head(ps)
           before == SelectSeq(rest, LAMBDA y : keyRank(y.k) < keyRank(x.k))
           after == SelectSeq(rest, LAMBDA y : ~(keyRank(y.k) < keyRank(x.k)))
       IN  before \o <<x>> \o after

\* every order in which range may visit the keys of a map
iterationOrders(m) ==
  {o \in [1..Cardinality(DOMAIN m) -> DOMAIN m] : \A i, j \in DOMAIN o : i /= j => o[i] /= o[j]}

\* a signing string whose lines stay in the order range visited the keys
signingStringUnsorted(uri, timestamp, values, order) ==
  <<uri.Path, timestamp>> \o [i \in DOMAIN order |-> order[i] \o "=" \o values[order[i]]]

\* the text that is signed: the path, the timestamp, the sorted lines
signingString(uri, timestamp, values, order) ==
  LET ps == [i \in DOMAIN order |-> paramLine(order[i], values[order[i]])]
      sorted == sortStrings(ps)
  IN  <<uri.Path, timestamp>> \o [i \in DOMAIN sorted |-> sorted[i].text]

\* base64 of the HMAC-SHA1 of tosign under the secret
signature(secret, tosign) == [kind |-> "base64-hmac-sha1", key |-> secret, msg |-> tosign]

\* an Authorize that adds to the header (header.Add): a value that is
\* already there stays the first one
authorizeAccessTokenAdds(token, header, values) ==
  [err |-> Nil,
   header |-> IF "Authorization" \in DOMAIN header THEN header
              ELSE MapSet(header, "Authorization", [kind |-> "OAuth", token |-> token.token]),
   values |-> values]

\* AccessToken.Authorize
authorizeAccessToken(token, header, values) ==
  [err |-> Nil,
   header |-> MapSet(header, "Authorization", [kind |-> "OAuth", token |-> token.token]),
   values |-> values]

\* ClientCredentialsSimple.Authorize
authorizeSimple(creds, header, values) ==
  [err |-> Nil, header |-> header,
   values |-> MapSet(MapSet(values, "client_id", creds.Id), "client_secret", creds.Secret)]

\* ClientCredentials.Authorize (hash.Write of an HMAC returns no error)
authorizeClientCredentials(creds, uri, header, values, timestamp, order) ==
  LET sig == signature(creds.Secret, signingString(uri, timestamp, values, order))
  IN  [err |-> Nil,
       header |-> MapSet(MapSet(header, "Date", HdrVal(timestamp)), "Authorization",
                         [kind |-> "Signature", id |-> creds.Id, sig |-> sig]),
       values |-> values]

\* Authorize of another implementation: an error, or nothing changed
authorizeOther(fails, header, values) ==
  [err |-> IF fails THEN [kind |-> "AuthorizeError"] ELSE Nil,
   header |-> header, values |-> values]

\* auth.Authorize(uri, header, values), dispatched on the dynamic type
Authorize(auth, uri, header, values, timestamp, order, fails) ==
  CASE auth.kind = "AccessToken" -> authorizeAccessToken(auth, header, values)
    [] auth.kind = "ClientCredentialsSimple" -> authorizeSimple(auth, header, values)
    [] auth.kind = "ClientCredentials" ->
         authorizeClientCredentials(auth, uri, header, values, timestamp, order)
    [] OTHER -> authorizeOther(fails, header, values)

\* a resolution that prefers the client's strategy
resolveAuthClientFirst(auth, clientAuth) == IF clientAuth = Nil THEN auth ELSE clientAuth

\* if auth == nil { auth = client.auth }
resolveAuth(auth, clientAuth) == IF auth = Nil THEN clientAuth ELSE auth

\* an ExecuteAuth that goes on after Authorize returned an error
authorizeNeverAborts(err) == FALSE

\* if err != nil { return nil, err }, after Authorize
authorizeAborts(err) == err /= Nil

-----------------------------------------------------------------------------
(* prepare and the response classification of Client.perform. *)

FormContentType == HdrVal("application/x-www-form-urlencoded")

\* http.NewRequest(method, urlStr, body): urlStr is parsed again, and the
\* error of that parse is the error of NewRequest
newRequest(method, urlStr, body) ==
  IF urlParse(urlStr).err /= Nil
    THEN [err |-> urlParse(urlStr).err, req |-> Nil]
    ELSE [err |-> Nil,
          req |-> [kind |-> "request", Method |-> method, URL |-> urlStr,
                   Header |-> EmptyMap, Body |-> body]]

\* prepare("POST", uri, header, values): the header gets Content-Type, the
\* request is made for uri.String() with the body values.Encode(); when
\* NewRequest fails prepare returns (nil, err), otherwise the request
\* carries every header
prepare(uri, header, values) ==
  LET h == MapSet(header, "Content-Type", FormContentType)
      r == newRequest("POST", urlString(uri), values)
  IN  IF r.err /= Nil
        THEN [header |-> h, req |-> Nil, err |-> r.err]
        ELSE [header |-> h, req |-> [r.req EXCEPT !.Header = h], err |-> Nil]

\* unicode.IsSpace, on the tokens of a header value
IsSpace(tok) == tok \in {" ", "\t"}

\* strings.SplitN(v, ";", 2)[0]: the text before the first ';'
RECURSIVE beforeSemicolon(_)
beforeSemicolon(v) ==
  IF v = <<>> \/ Head(v) = ";" THEN <<>> ELSE <<Head(v)>> \o beforeSemicolon(Tail(v))

\* strings.TrimFunc(s, unicode.IsSpace)
RECURSIVE trimLeft(_)
trimLeft(s) == IF s /= <<>> /\ IsSpace(Head(s)) THEN trimLeft(Tail(s)) ELSE s

RECURSIVE trimRight(_)
trimRight(s) ==
  IF s /= <<>> /\ IsSpace(s[Len(s)]) THEN trimRight(SubSeq(s, 1, Len(s) - 1)) ELSE s

trimSpace(s) == trimRight(trimLeft(s))

\* part_000: contentType(resp)
contentType(v) == trimSpace(beforeSemicolon(v))

\* the earlier revision switches on resp.Header.Get("Content-Type") itself
mimeEarlier(v) == v

\* switch mime := contentType(resp); mime
mimeOf(v) == contentType(v)

\* case "application/json", "text/json":
isJSONMime(mime) == mime \in {<<"application/json">>, <<"text/json">>}

\* JSON values of an envelope field
Missing == [kind |-> "missing"]
JStr(s) == [kind |-> "string", s |-> s]
JNum(n) == [kind |-> "number", n |-> n]

\* a response body: the document its bytes hold (or bytes that are no JSON)
\* and whether the bytes are the compact text json.Marshal would write
NotJSON == [kind |-> "notjson"]
JScalar == [kind |-> "scalar", n |-> 3]
JObject(stat, error, description) ==
  [kind |-> "object", stat |-> stat, error |-> error, error_description |-> description]

\* dec.Decode(js): the document, or an error when the bytes are no JSON
jsonDecode(body) ==
  IF body.doc.kind = "notjson"
    THEN [err |-> [kind |-> "json.SyntaxError"], js |-> Nil]
    ELSE [err |-> Nil, js |-> body.doc]

\* js.Get(key): the field of an object, an empty Json otherwise
jsGet(js, key) ==
  IF js.kind = "object" /\ key \in DOMAIN js THEN js[key] ELSE Missing

\* a MustString with the default "ok" for anything that is not a string
MustStringDefaultOk(v) == IF v.kind = "string" THEN v.s ELSE "ok"

\* MustString(): the string, "" for anything that is not a string
MustString(v) == IF v.kind = "string" THEN v.s ELSE ""

\* NewRemoteError(js) as perform calls it
NewRemoteError(js) ==
  [kind |-> "RemoteError",
   Kind |-> MustString(jsGet(js, "error")),
   Description |-> MustString(jsGet(js, "error_description")),
   Response |-> js]

\* the switch of perform on a response: (payload, err)
classify(resp) ==
  LET mime == mimeOf(resp.ContentType)
      dec == jsonDecode(resp.Body)
  IN  IF isJSONMime(mime)
        THEN IF dec.err /= Nil
               THEN [payload |-> Nil, err |-> [kind |-> "JsonDecoderError", Err |-> dec.err]]
             ELSE IF MustString(jsGet(dec.js, "stat")) /= "ok"
               THEN [payload |-> Nil, err |-> NewRemoteError(dec.js)]
             ELSE [payload |-> dec.js, err |-> Nil]
        ELSE [payload |-> Nil, err |-> [kind |-> "ContentTypeError", mime |-> mime]]

\* a perform that closes the body only on the way out with a payload
bodyClosedOnSuccess(res) == res.err = Nil

\* defer resp.Body.Close(): the body is closed when perform returns,
\* whatever it returns
bodyClosedOnReturn(res) == TRUE

\* a perform that dispatches again after a transport error
doCallsRetry(req, outcome) == IF outcome.kind = "error" THEN <<req, req>> ELSE <<req>>

\* the requests perform hands to client.http.Do: the one request, once,
\* whatever the outcome
doCalls(req, outcome) == <<req>>

\* HttpResponse() of an error value: the captured response data it holds
HttpResponse(e) == IF "HttpResponseData" \in DOMAIN e THEN e.HttpResponseData ELSE Nil

-----------------------------------------------------------------------------
(* The state: the client, and for every call its arguments, the locals of   *)
(* ExecuteAuth, and what it did (the strategies it invoked, the requests it *)
(* handed to the transport).                                                *)

\* NewClient(baseurl, auth)
NewClient(baseurl, auth) ==
  [baseurl |-> baseurl, auth |-> auth, params |-> EmptyMap, header |-> EmptyMap]

IdleCall ==
  [pc |-> "idle", entry |-> "none",
   auth |-> Nil, method |-> <<>>, header |-> EmptyMap, params |-> EmptyMap,
   uri |-> Nil, mheader |-> EmptyMap, values |-> EmptyMap, mergedparams |-> EmptyMap,
   hobj |-> "new", pobj |-> "new",
   mergeErr |-> Nil, authErr |-> Nil, prepErr |-> Nil,
   req |-> Nil, authorized |-> <<>>, sent |-> <<>>, resp |-> Nil, doErr |-> Nil,
   bodyClosed |-> FALSE, payload |-> Nil, err |-> Nil]

\* no call is in progress and the program has not aborted
Quiet == \A c \in Calls : call[c].pc = "idle"

\* what the program did last to the default of a parameter key: gave it a
\* value (Default, Params().Set), or nothing that left it one (never set, or
\* DefaultClear since)
NoDefault == [op |-> "none"]
DefaultGiven(value) == [op |-> "Default", value |-> value]

\* the last application of a function of the package outside a call
NoApp == [fn |-> "none"]

InitWith(bases, auths) ==
  /\ client \in {NewClient(b, a) : b \in bases, a \in auths}
  /\ call = [c \in Calls |-> IdleCall]
  /\ lastDefault = [k \in {ParamKeyList[i] : i \in DOMAIN ParamKeyList} |-> NoDefault]
  /\ app = NoApp

\* capture/client.go: client.Default(param, value)
Default(param, value) ==
  /\ Quiet
  /\ client' = [client EXCEPT !.params = MapSet(@, param, value)]
  /\ lastDefault' = [lastDefault EXCEPT ![param] = DefaultGiven(value)]
  /\ UNCHANGED <<call, app>>

\* capture/client.go: client.DefaultClear(param)
DefaultClear(param) ==
  /\ Quiet
  /\ client' = [client EXCEPT !.params = MapDelete(@, param)]
  /\ lastDefault' = [lastDefault EXCEPT ![param] = NoDefault]
  /\ UNCHANGED <<call, app>>

\* part_000: client.Params().Set(key, value)
ParamsSet(key, value) ==
  /\ Quiet
  /\ client' = [client EXCEPT !.params = MapSet(@, key, value)]
  /\ lastDefault' = [lastDefault EXCEPT ![key] = DefaultGiven(value)]
  /\ UNCHANGED <<call, app>>

\* part_000: client.Header().Set(key, value)
HeaderSet(key, value) ==
  /\ Quiet
  /\ client' = [client EXCEPT !.header = MapSet(@, key, value)]
  /\ UNCHANGED <<call, lastDefault, app>>

\* the frame of a call that enters ExecuteAuth with these arguments
enter(entry, auth, method, header, params) ==
  [IdleCall EXCEPT !.pc = "merge", !.entry = entry, !.auth = auth,
                   !.method = method, !.header = header, !.params = params]

\* the auth argument Execute passes to ExecuteAuth
executeAuthArg == Nil

\* entry of ExecuteAuth(auth, method, header, params), the arguments drawn
\* from the given sets
ExecuteAuth(c, auths, methods, headers, paramss) ==
  /\ Quiet
  /\ \E auth \in auths, method \in methods, header \in headers, params \in paramss :
       call' = [call EXCEPT ![c] = enter("ExecuteAuth", auth, method, header, params)]
  /\ UNCHANGED <<client, lastDefault, app>>

\* Execute(method, header, params): ExecuteAuth(nil, method, header, params)
Execute(c, methods, headers, paramss) ==
  /\ Quiet
  /\ \E method \in methods, header \in headers, params \in paramss :
       call' = [call EXCEPT ![c] = enter("Execute", executeAuthArg, method, header, params)]
  /\ UNCHANGED <<client, lastDefault, app>>

\* uri, header, values, err := client.merge(...); if err != nil { return nil, err }
\* (method[0] of an empty method aborts the program)
Merge(c) ==
  /\ call[c].pc = "merge"
  /\ IF call[c].method = <<>>
       THEN /\ call' = [call EXCEPT ![c].pc = "panic"]
            /\ UNCHANGED client
       ELSE LET m == merge(client, call[c].method, call[c].header, call[c].params)
                hobj == mergedHeaderObject(client.header, call[c].header)
                pobj == mergedParamsObject(client.params, call[c].params)
                mh == mergeHeader(client.header, call[c].header)
            IN  IF m.err /= Nil /\ m.err.kind = "url.Error"
                  THEN /\ call' = [call EXCEPT ![c].pc = "done", ![c].payload = Nil,
                                               ![c].err = m.err, ![c].mergeErr = m.err,
                                               ![c].mergedparams = m.mergedparams]
                       /\ UNCHANGED client
                ELSE IF m.err /= Nil
                  THEN /\ call' = [call EXCEPT ![c].pc = "done", ![c].payload = Nil,
                                               ![c].err = m.err, ![c].mergeErr = m.err,
                                               ![c].mergedparams = m.mergedparams,
                                               ![c].header = argAfterWrite(@, hobj, "header", mh),
                                               ![c].params = argAfterWrite(@, pobj, "params", m.mergedparams)]
                       /\ client' = clientAfterWrite(client, hobj, mh, pobj, m.mergedparams)
                  ELSE /\ call' = [call EXCEPT ![c].pc = "auth", ![c].uri = m.uri,
                                               ![c].mheader = m.header,
                                               ![c].values = m.values,
                                               ![c].mergedparams = m.mergedparams,
                                               ![c].hobj = hobj, ![c].pobj = pobj,
                                               ![c].header = argAfterWrite(@, hobj, "header", m.header),
                                               ![c].params = argAfterWrite(@, pobj, "params", m.mergedparams)]
                       /\ client' = clientAfterWrite(client, hobj, m.header, pobj, m.mergedparams)
  /\ UNCHANGED <<lastDefault, app>>

\* if auth == nil { auth = client.auth }
\* if auth != nil { err = auth.Authorize(uri, header, values); if err != nil { return nil, err } }
AuthorizeCall(c) ==
  /\ call[c].pc = "auth"
  /\ LET auth == resolveAuth(call[c].auth, client.auth)
     IN  IF auth = Nil
           THEN /\ call' = [call EXCEPT ![c].pc = "prepare"]
                /\ UNCHANGED client
           ELSE \E timestamp \in Timestamps, order \in iterationOrders(call[c].values),
                   fails \in BOOLEAN :
                  LET a == Authorize(auth, call[c].uri, loadHeader(client, call[c]),
                                     call[c].values, timestamp, order, fails)
                  IN  IF authorizeAborts(a.err)
                        THEN /\ call' = [call EXCEPT ![c].pc = "done", ![c].payload = Nil,
                                                     ![c].err = a.err, ![c].authErr = a.err,
                                                     ![c].authorized = Append(@, auth)]
                             /\ UNCHANGED client
                        ELSE /\ call' = [call EXCEPT ![c].pc = "prepare",
                                                     ![c].mheader = a.header,
                                                     ![c].values = a.values,
                                                     ![c].authErr = a.err,
                                                     ![c].authorized = Append(@, auth),
                                                     ![c].header =
                                                       argAfterWrite(@, call[c].hobj, "header", a.header)]
                             /\ client' = clientAfterWrite(client, call[c].hobj, a.header,
                                                           "new", client.params)
  /\ UNCHANGED <<lastDefault, app>>

\* req, err := prepare("POST", uri, header, values); err is assigned and not
\* read: the next statement is return client.perform(req), with the nil req
\* of a failed prepare too
Prepare(c) ==
  /\ call[c].pc = "prepare"
  /\ LET p == prepare(call[c].uri, loadHeader(client, call[c]), call[c].values)
     IN  /\ call' = [call EXCEPT ![c].pc = "perform", ![c].mheader = p.header,
                                 ![c].req = p.req, ![c].prepErr = p.err,
                                 ![c].header = argAfterWrite(@, call[c].hobj, "header", p.header)]
         /\ client' = clientAfterWrite(client, call[c].hobj, p.header, "new", client.params)
  /\ UNCHANGED <<lastDefault, app>>

\* return client.perform(req): one client.http.Do(req), whose outcome is the
\* transport's error or a response; the response body is closed on return.
\* client.http.Do of a nil request dereferences it: a run-time panic.
Perform(c, outcomes) ==
  /\ call[c].pc = "perform"
  /\ IF call[c].req = Nil
       THEN call' = [call EXCEPT ![c].pc = "panic"]
       ELSE \E outcome \in outcomes :
              IF outcome.kind = "error"
                THEN call' = [call EXCEPT ![c].pc = "done",
                                ![c].sent = @ \o doCalls(call[c].req, outcome),
                                ![c].doErr = outcome.err, ![c].payload = Nil,
                                ![c].err = [kind |-> "HttpTransportError", Err |-> outcome.err]]
                ELSE LET res == classify(outcome.resp)
                     IN  call' = [call EXCEPT ![c].pc = "done",
                                    ![c].sent = @ \o doCalls(call[c].req, outcome),
                                    ![c].resp = outcome.resp,
                                    ![c].bodyClosed = bodyClosedOnReturn(res),
                                    ![c].payload = res.payload, ![c].err = res.err]
  /\ UNCHANGED <<client, lastDefault, app>>

\* the caller has the results (payload, err): the frame of the call is gone
Return(c) ==
  /\ call[c].pc = "done"
  /\ call' = [call EXCEPT ![c] = IdleCall]
  /\ UNCHANGED <<client, lastDefault, app>>

-----------------------------------------------------------------------------
(* Package filter (filter/filter.go): filters are strings. *)

\* FilterEscapedString(val): val in single quotes, ' and \ escaped with a
\* backslash (neither is in a value of the inputs)
FilterEscapedString(val) == "'" \o val \o "'"

\* val.FilterValue() for the Value that F.Filter picks: a string is escaped
\* and quoted, anything else is written with %v
FilterValue(val) ==
  CASE val.kind = "string" -> FilterEscapedString(val.s)
    [] val.kind = "number" -> ToString(val.n)
    [] OTHER -> "<nil>"

\* (&F{attrcomp, val}).Filter(): fmt.Sprintf("%s %s", c.FilterStr, val.FilterValue())
FFilter(attrcomp, val) == attrcomp \o " " \o FilterValue(val)

\* New(attrcomp, val)
New(attrcomp, val) == FFilter(attrcomp, val)

\* strings.Join(elems, sep)
RECURSIVE stringsJoin(_, _)
stringsJoin(elems, sep) ==
  IF elems = <<>> THEN ""
  ELSE IF Len(elems) = 1 THEN elems[1]
  ELSE elems[1] \o sep \o stringsJoin(Tail(elems), sep)

\* filterSep(filters, sep), filters given by what their Filter() returns
filterSep(filters, sep) ==
  CASE Len(filters) = 0 -> ""
    [] Len(filters) = 1 -> filters[1]
    [] OTHER -> stringsJoin([i \in DOMAIN filters |-> "(" \o filters[i] \o ")"], sep)

\* And(filters...) and Or(filters...)
And(filters) == filterSep(filters, "AND")
Or(filters) == filterSep(filters, "OR")

\* filter.And(attrcomp, val) and filter.Or(attrcomp, val) of a Filter
FilterAnd(filter, attrcomp, val) == "(" \o filter \o ") AND (" \o New(attrcomp, val) \o ")"
FilterOr(filter, attrcomp, val) == "(" \o filter \o ") OR (" \o New(attrcomp, val) \o ")"

\* the program builds a filter with And or Or
ApplyAnd(filterss) ==
  /\ \E fs \in filterss : app' = [fn |-> "And", operands |-> fs, result |-> And(fs)]
  /\ UNCHANGED <<client, call, lastDefault>>

ApplyOr(filterss) ==
  /\ \E fs \in filterss : app' = [fn |-> "Or", operands |-> fs, result |-> Or(fs)]
  /\ UNCHANGED <<client, call, lastDefault>>

\* the program builds a filter with New
ApplyNew(attrcomps, vals) ==
  /\ \E a \in attrcomps, v \in vals :
       app' = [fn |-> "New", attrcomp |-> a, val |-> v, result |-> New(a, v)]
  /\ UNCHANGED <<client, call, lastDefault>>

\* the program chains And or Or onto the filter New built
ApplyFilterAnd(attrcomps, vals) ==
  /\ app.fn = "New"
  /\ \E a \in attrcomps, v \in vals :
       app' = [fn |-> "Filter.And", filter |-> app.result, attrcomp |-> a, val |-> v,
               result |-> FilterAnd(app.result, a, v)]
  /\ UNCHANGED <<client, call, lastDefault>>

ApplyFilterOr(attrcomps, vals) ==
  /\ app.fn = "New"
  /\ \E a \in attrcomps, v \in vals :
       app' = [fn |-> "Filter.Or", filter |-> app.result, attrcomp |-> a, val |-> v,
               result |-> FilterOr(app.result, a, v)]
  /\ UNCHANGED <<client, call, lastDefault>>

-----------------------------------------------------------------------------
(* The error types of capture.go and their messages.  A message is the     *)
(* sequence of the pieces of text it is made of.                           *)

\* an error value with a message, as fmt.Errorf makes one
Errorf(msg) == [kind |-> "error", msg |-> msg]

\* HttpResponseData{StatusCode, Header, Body}
HttpResponseData(status, ctype, body) ==
  [StatusCode |-> status, Header |-> [k \in {"Content-Type"} |-> ctype], Body |-> body]

\* values of the four error types
RemoteErrorValue(kind, description) ==
  [kind |-> "RemoteError", Kind |-> kind, Description |-> description]
HttpTransportErrorValue(err) == [kind |-> "HttpTransportError", Err |-> err]
JsonDecoderErrorValue(r, err) == [kind |-> "JsonDecoderError", r |-> r, Err |-> err]
ContentTypeErrorValue(r) == [kind |-> "ContentTypeError", HttpResponseData |-> r]

\* header.Get(key): the value, "" when the header has none
headerGet(header, key) == IF key \in DOMAIN header THEN header[key] ELSE <<>>

\* the verb %q (strconv.Quote): the text in double quotes, a double quote
\* and a backslash in it escaped with a backslash
RECURSIVE quoteEscaped(_)
quoteEscaped(text) ==
  IF text = <<>> THEN <<>>
  ELSE (IF Head(text) \in {"\"", "\\"} THEN <<"\\", Head(text)>> ELSE <<Head(text)>>)
         \o quoteEscaped(Tail(text))

strconvQuote(text) == <<"\"">> \o quoteEscaped(text) \o <<"\"">>

\* the earlier capture.go (part_001): fmt.Sprintf("%s (%d) %s", Kind, Code, Description)
remoteErrorMessageEarlier(err) == <<err.Kind, " (", "0", ") ", err.Description>>

\* RemoteError.Error(): fmt.Sprintf("[%s] %s", err.Kind, err.Description)
remoteErrorMessage(err) == <<"[", err.Kind, "] ", err.Description>>

\* ContentTypeError.Error()
contentTypeErrorMessage(err) ==
  <<"unexpected content-type ">>
    \o strconvQuote(headerGet(err.HttpResponseData.Header, "Content-Type"))

\* err.Error() of the four error types
ErrorMessage(err) ==
  CASE err.kind = "RemoteError" -> remoteErrorMessage(err)
    [] err.kind = "ContentTypeError" -> contentTypeErrorMessage(err)
    [] err.kind \in {"HttpTransportError", "JsonDecoderError"} -> <<err.Err.msg>>

\* the program asks an error value for its message
ApplyError(errs) ==
  /\ app = NoApp
  /\ \E e \in errs : app' = [fn |-> "Error", err |-> e, result |-> ErrorMessage(e)]
  /\ UNCHANGED <<client, call, lastDefault>>

\* the program is done with the message
DropMessage ==
  /\ app.fn = "Error"
  /\ app' = NoApp
  /\ UNCHANGED <<client, call, lastDefault>>

-----------------------------------------------------------------------------
(* Inputs. *)

PathChars == {"/", "m", "%", " "}
Methods == SeqsUpTo(PathChars, MaxLen)
BaseUrls == {<<"https://x">>, <<"https://x", "/", "v">>}

\* what the transport may answer
TransportError == [kind |-> "error", err |-> [kind |-> "net.OpError"]]
Response(status, ctype, body) ==
  [kind |-> "response",
   resp |-> [kind |-> "response", StatusCode |-> status, ContentType |-> ctype, Body |-> body]]

OkDoc == JObject(JStr("ok"), Missing, Missing)
ErrorDoc == JObject(JStr("error"), JStr("invalid_request"), JStr("bad filter"))
Body(doc, compact) == [doc |-> doc, compact |-> compact]

\* the answers of the pipeline specification
FewOutcomes ==
  {TransportError}
    \cup {Response(200, ct, Body(d, TRUE)) :
            ct \in {<<"application/json">>, <<"text/html">>}, d \in {OkDoc, ErrorDoc, NotJSON}}

\* the specification of the pipeline: every method path, the authorization
\* strategies, few parameters and answers
Init == InitWith(BaseUrls, {Nil, AccessToken, ClientCredentials})

FewHeaders == {EmptyMap, [k \in {"X-Trace"} |-> HdrVal("v")]}
FewParams == {EmptyMap} \cup {[k \in {"type_name"} |-> v] : v \in {StrVal("user"), ChanVal}}

Next ==
  \/ \E v \in {StrVal("user")} : Default("type_name", v)
  \/ DefaultClear("type_name")
  \/ \E v \in {StrVal("user")} : ParamsSet("type_name", v)
  \/ \E v \in {HdrVal("u")} : HeaderSet("X-Trace", v)
  \/ \E c \in Calls : ExecuteAuth(c, {ClientCredentialsSimple, OtherAuthorization, Nil},
                                  Methods, FewHeaders, FewParams)
  \/ \E c \in Calls : Execute(c, Methods, FewHeaders, FewParams)
  \/ \E c \in Calls : Merge(c)
  \/ \E c \in Calls : AuthorizeCall(c)
  \/ \E c \in Calls : Prepare(c)
  \/ \E c \in Calls : Perform(c, FewOutcomes)
  \/ \E c \in Calls : Return(c)

Spec == Init /\ [][Next]_vars

-----------------------------------------------------------------------------
(* The specification of the parameter merge: every default and every call  *)
(* parameter map over ParamKeys and ParamValues, one answer.               *)

OkOutcomes == {Response(200, <<"application/json">>, Body(OkDoc, TRUE))}

InitParams == InitWith({<<"https://x">>}, {Nil})

NextParams ==
  \/ \E k \in ParamKeys, v \in ParamValues : Default(k, v)
  \/ \E k \in ParamKeys : DefaultClear(k)
  \/ \E k \in ParamKeys, v \in ParamValues : ParamsSet(k, v)
  \/ \E c \in Calls : ExecuteAuth(c, {ClientCredentialsSimple}, {<<"/", "m">>}, {EmptyMap},
                                  Maps(ParamKeys, ParamValues))
  \/ \E c \in Calls : Execute(c, {<<"/", "m">>}, {EmptyMap}, Maps(ParamKeys, ParamValues))
  \/ \E c \in Calls : Merge(c)
  \/ \E c \in Calls : AuthorizeCall(c)
  \/ \E c \in Calls : Prepare(c)
  \/ \E c \in Calls : Perform(c, OkOutcomes)
  \/ \E c \in Calls : Return(c)

SpecParams == InitParams /\ [][NextParams]_vars

(* The specification of the client's default parameters over a sequence   *)
(* of operations: every sequence of Default and DefaultClear on ParamKeys,  *)
(* Execute calls between them, on a client without authorization and on a   *)
(* client with ClientCredentialsSimple.                                     *)

DefaultValues == {StrVal("user"), NumVal(3)}

DefaultsCallParams == Maps(ParamKeys, {FilterVal("user")})

InitDefaults == InitWith({<<"https://x">>}, {Nil, ClientCredentialsSimple})

NextDefaults ==
  \/ \E k \in ParamKeys, v \in DefaultValues : Default(k, v)
  \/ \E k \in ParamKeys : DefaultClear(k)
  \/ \E c \in Calls : Execute(c, {<<"/", "m">>}, {EmptyMap}, DefaultsCallParams)
  \/ \E c \in Calls : Merge(c)
  \/ \E c \in Calls : AuthorizeCall(c)
  \/ \E c \in Calls : Prepare(c)
  \/ \E c \in Calls : Perform(c, OkOutcomes)
  \/ \E c \in Calls : Return(c)

SpecDefaults == InitDefaults /\ [][NextDefaults]_vars

(* The specification of request construction: a client whose base URL is   *)
(* an absolute URL, and one whose base URL is the relative reference %3A,   *)
(* which url.Parse accepts and URL.String() writes back as a text that      *)
(* http.NewRequest does not parse.                                          *)

PrepareBaseUrls == {<<"https://x">>, <<"%3A">>}

InitPrepare == InitWith(PrepareBaseUrls, {Nil, AccessToken})

NextPrepare ==
  \/ \E k \in HeaderKeys, v \in HeaderValues : HeaderSet(k, v)
  \/ \E c \in Calls : ExecuteAuth(c, {Nil, ClientCredentialsSimple}, {<<"/", "m">>, <<"m">>},
                                  FewHeaders, FewParams)
  \/ \E c \in Calls : Merge(c)
  \/ \E c \in Calls : AuthorizeCall(c)
  \/ \E c \in Calls : Prepare(c)
  \/ \E c \in Calls : Perform(c, FewOutcomes)
  \/ \E c \in Calls : Return(c)

SpecPrepare == InitPrepare /\ [][NextPrepare]_vars

(* The specification of the header merge: every default and every call     *)
(* header over HeaderKeys and HeaderValues.                                *)

NextHeaders ==
  \/ \E k \in HeaderKeys, v \in HeaderValues : HeaderSet(k, v)
  \/ \E c \in Calls : ExecuteAuth(c, {AccessToken}, {<<"/", "m">>},
                                  Maps(HeaderKeys, HeaderValues), {EmptyMap})
  \/ \E c \in Calls : Execute(c, {<<"/", "m">>}, Maps(HeaderKeys, HeaderValues), {EmptyMap})
  \/ \E c \in Calls : Merge(c)
  \/ \E c \in Calls : AuthorizeCall(c)
  \/ \E c \in Calls : Prepare(c)
  \/ \E c \in Calls : Perform(c, OkOutcomes)
  \/ \E c \in Calls : Return(c)

SpecHeaders == InitParams /\ [][NextHeaders]_vars

(* The specification of the response classification: every Content-Type    *)
(* value of at most MaxCtLen tokens, every kind of body, two status codes. *)

CtTokens == {" ", ";", "application/json", "text/json", "text/html", "charset=UTF-8"}
ContentTypes == SeqsUpTo(CtTokens, MaxCtLen)
Docs ==
  {OkDoc, ErrorDoc, NotJSON, JScalar,
   JObject(Missing, Missing, Missing), JObject(JNum(1), Missing, Missing),
   JObject(JStr("OK"), Missing, Missing)}
StatusCodes == {200, 500}

AllOutcomes ==
  {TransportError}
    \cup {Response(st, ct, Body(d, compact)) :
            st \in StatusCodes, ct \in ContentTypes, d \in Docs, compact \in BOOLEAN}

NextClassify ==
  \/ \E c \in Calls : ExecuteAuth(c, {AccessToken}, {<<"/", "m">>}, {EmptyMap}, {EmptyMap})
  \/ \E c \in Calls : Execute(c, {<<"/", "m">>}, {EmptyMap}, {EmptyMap})
  \/ \E c \in Calls : Merge(c)
  \/ \E c \in Calls : AuthorizeCall(c)
  \/ \E c \in Calls : Prepare(c)
  \/ \E c \in Calls : Perform(c, AllOutcomes)
  \/ \E c \in Calls : Return(c)

SpecClassify == InitParams /\ [][NextClassify]_vars

(* The specification of the HMAC signing: a client whose strategy is       *)
(* ClientCredentials, every default and every call parameter map.          *)

InitSign == InitWith({<<"https://x">>}, {ClientCredentials})

NextSign ==
  \/ \E k \in ParamKeys, v \in ParamValues : Default(k, v)
  \/ \E c \in Calls : ExecuteAuth(c, {Nil, ClientCredentials}, {<<"/", "m">>, <<"m", " ">>},
                                  {EmptyMap}, Maps(ParamKeys, ParamValues))
  \/ \E c \in Calls : Merge(c)
  \/ \E c \in Calls : AuthorizeCall(c)
  \/ \E c \in Calls : Prepare(c)
  \/ \E c \in Calls : Perform(c, OkOutcomes)
  \/ \E c \in Calls : Return(c)

SpecSign == InitSign /\ [][NextSign]_vars

(* The specification of package filter: And and Or of at most MaxFilters   *)
(* operands, New and the chained And and Or.                               *)

FilterTexts == {"gender = 'male'", "age >= 18", ""}
AttrComps == {"gender =", "age >="}
FilterVals == {StrVal("male"), NumVal(18), Nil}

NextFilter ==
  \/ ApplyAnd(SeqsUpTo(FilterTexts, MaxFilters))
  \/ ApplyOr(SeqsUpTo(FilterTexts, MaxFilters))
  \/ ApplyNew(AttrComps, FilterVals)
  \/ ApplyFilterAnd(AttrComps, FilterVals)
  \/ ApplyFilterOr(AttrComps, FilterVals)

SpecFilter == InitParams /\ [][NextFilter]_vars

(* The specification of the error messages: every Content-Type value of   *)
(* at most MaxCtLen tokens, among them the characters %q escapes.          *)

QuotedTokens == {"application/goboom", ";", "\"", "\\"}
WrappedErrors == {Errorf("boo!"), Errorf("oop--"), Errorf("")}
ErrorTexts == {"invalid_kittens", "nyan nyan", ""}

NextErrors ==
  \/ ApplyError({RemoteErrorValue(k, d) : k \in ErrorTexts, d \in ErrorTexts})
  \/ ApplyError({HttpTransportErrorValue(e) : e \in WrappedErrors})
  \/ ApplyError({JsonDecoderErrorValue(r, e) :
                   r \in {Nil, HttpResponseData(200, <<"application/json">>, NotJSON)},
                   e \in WrappedErrors})
  \/ ApplyError({ContentTypeErrorValue(HttpResponseData(st, ct, NotJSON)) :
                   st \in StatusCodes, ct \in SeqsUpTo(QuotedTokens, MaxCtLen)})
  \/ DropMessage

SpecErrors == InitParams /\ [][NextErrors]_vars

(* The specification of concurrent calls: two goroutines call ExecuteAuth  *)
(* on one client whose defaults no one changes; their steps interleave.    *)

ConcurrentCalls == {1, 2}

ConcurrentClient ==
  [NewClient(<<"https://x">>, AccessToken) EXCEPT
     !.header = [k \in {"X-Trace"} |-> HdrVal("u")],
     !.params = [k \in {"type_name"} |-> StrVal("user")]]

InitConcurrent ==
  /\ client = ConcurrentClient
  /\ call = [c \in ConcurrentCalls |-> IdleCall]
  /\ lastDefault = [k \in {ParamKeyList[i] : i \in DOMAIN ParamKeyList} |->
                      IF k \in DOMAIN ConcurrentClient.params
                        THEN DefaultGiven(ConcurrentClient.params[k]) ELSE NoDefault]
  /\ app = NoApp

\* a goroutine enters ExecuteAuth, whatever the other is doing
GoExecuteAuth(c, auths, methods, headers, paramss) ==
  /\ call[c].pc = "idle"
  /\ \E auth \in auths, method \in methods, header \in headers, params \in paramss :
       call' = [call EXCEPT ![c] = enter("ExecuteAuth", auth, method, header, params)]
  /\ UNCHANGED <<client, lastDefault, app>>

NextConcurrent ==
  \/ \E c \in ConcurrentCalls :
       GoExecuteAuth(c, {Nil, ClientCredentialsSimple}, {<<"/", "m">>}, FewHeaders,
                     {EmptyMap, [k \in {"type_name"} |-> FilterVal("user")]})
  \/ \E c \in ConcurrentCalls : Merge(c)
  \/ \E c \in ConcurrentCalls : AuthorizeCall(c)
  \/ \E c \in ConcurrentCalls : Prepare(c)
  \/ \E c \in ConcurrentCalls : Perform(c, OkOutcomes)
  \/ \E c \in ConcurrentCalls : Return(c)

SpecConcurrent == InitConcurrent /\ [][NextConcurrent]_vars

(* The specification of the bearer and simple strategies: every header    *)
(* and every form value that may be there before Authorize.                *)

StrategyParamKeys == {"client_id", "type_name"}
StrategyParamValues == {StrVal("user"), NumVal(3)}

InitStrategies == InitWith({<<"https://x">>}, {AccessToken})

NextStrategies ==
  \/ \E k \in HeaderKeys, v \in HeaderValues : HeaderSet(k, v)
  \/ \E c \in Calls : ExecuteAuth(c, {Nil, ClientCredentialsSimple}, {<<"/", "m">>},
                                  Maps(HeaderKeys, HeaderValues),
                                  Maps(StrategyParamKeys, StrategyParamValues))
  \/ \E c \in Calls : Merge(c)
  \/ \E c \in Calls : AuthorizeCall(c)
  \/ \E c \in Calls : Prepare(c)
  \/ \E c \in Calls : Perform(c, OkOutcomes)
  \/ \E c \in Calls : Return(c)

SpecStrategies == InitStrategies /\ [][NextStrategies]_vars

-----------------------------------------------------------------------------
(* Claims. *)

\* merge returned without an error: the locals of ExecuteAuth hold its results
Merged(c) == call[c].pc \in {"auth", "prepare", "perform"}

\* C1: the merged parameter set has, for every key of the call's parameters,
\* the call's value (also when the client has a default for the key), for
\* every other key of the client's defaults the default value, and no other
\* key; the form values merge returns have exactly these keys.
C1_ParamMerge ==
  \A c \in Calls :
    (Merged(c) \/ call[c].mergeErr.kind = "json.UnsupportedTypeError") =>
      LET M == call[c].mergedparams
          D == client.params
          P == call[c].params
      IN  /\ DOMAIN M = DOMAIN D \cup DOMAIN P
          /\ \A k \in DOMAIN P : M[k] = P[k]
          /\ \A k \in DOMAIN D \ DOMAIN P : M[k] = D[k]
          /\ call[c].pc = "auth" => DOMAIN call[c].values = DOMAIN M

\* a call past merge with a key in both maps under different values and a
\* key only the client defines
C1_Witness ==
  \E c \in Calls :
    /\ call[c].pc = "auth"
    /\ \E k \in DOMAIN client.params \cap DOMAIN call[c].params :
         client.params[k] /= call[c].params[k]
    /\ DOMAIN client.params \ DOMAIN call[c].params /= {}

C3_ParamEncoding ==
  \A c \in Calls :
    call[c].pc = "auth" =>
      LET M == call[c].mergedparams
          V == call[c].values
      IN  /\ DOMAIN V = DOMAIN M
          /\ \A k \in DOMAIN M :
               /\ M[k].kind = "string" => V[k] = M[k].s
               /\ M[k].kind = "number" => V[k] = ToString(M[k].n)
               /\ M[k].kind = "filter.Filter" => V[k] = "\"" \o M[k].s \o "\""

\* a call past merge with a Go string and a value that is no Go string
C3_Witness ==
  \E c \in Calls :
    /\ call[c].pc = "auth"
    /\ \E k1, k2 \in DOMAIN call[c].mergedparams :
         /\ call[c].mergedparams[k1].kind = "string"
         /\ call[c].mergedparams[k2].kind = "filter.Filter"
         /\ call[c].values[k1] = "user"
         /\ call[c].values[k2] = "\"user\""

\* the strategy ExecuteAuth is to use: the override when one is supplied,
\* otherwise the client's default
Resolved(c) == IF call[c].auth /= Nil THEN call[c].auth ELSE client.auth

\* the call went through merge and authorization without an error
PreSendOk(c) ==
  \/ call[c].pc \in {"prepare", "perform"}
  \/ call[c].pc = "done" /\ call[c].mergeErr = Nil /\ call[c].authErr = Nil

\* C4: a call in which a parameter value failed to serialize, or in which
\* Authorize of the resolved strategy returned an error, is over, returns
\* that same error and a nil payload, and never invoked the transport; no
\* call goes on past merge with a parameter that has no JSON text.
C4_NoSendAfterPreSendFailure ==
  \A c \in Calls :
    /\ call[c].mergeErr.kind = "json.UnsupportedTypeError" =>
         /\ call[c].pc = "done"
         /\ call[c].err = call[c].mergeErr
         /\ call[c].payload = Nil
         /\ call[c].sent = <<>>
    /\ call[c].authErr /= Nil =>
         /\ call[c].pc = "done"
         /\ call[c].err = call[c].authErr
         /\ call[c].payload = Nil
         /\ call[c].sent = <<>>
    /\ call[c].pc \in {"auth", "prepare", "perform"} =>
         \A k \in DOMAIN call[c].mergedparams : call[c].mergedparams[k].kind /= "chan"

\* a call that ended in the error of its strategy's Authorize
C4_Witness ==
  \E c \in Calls :
    /\ call[c].pc = "done"
    /\ call[c].authErr = [kind |-> "AuthorizeError"]
    /\ call[c].authorized = <<OtherAuthorization>>

\* C5: the strategy whose Authorize is invoked is the override when it is
\* not nil, otherwise the client's default when that is not nil; a call
\* invokes Authorize at most once, exactly once when a strategy is resolved
\* and the authorization step is done, never when none is resolved; Execute
\* passes no override.
C5_AuthorizationResolution ==
  \A c \in Calls :
    /\ Len(call[c].authorized) <= 1
    /\ call[c].authorized /= <<>> =>
         /\ Resolved(c) /= Nil
         /\ call[c].authorized[1] = Resolved(c)
         /\ call[c].auth /= Nil => call[c].authorized[1] = call[c].auth
         /\ call[c].auth = Nil => call[c].authorized[1] = client.auth
    /\ (PreSendOk(c) \/ call[c].authErr /= Nil) =>
         Len(call[c].authorized) = IF Resolved(c) = Nil THEN 0 ELSE 1
    /\ call[c].entry = "Execute" => call[c].auth = Nil

\* a call with an override on a client that has a default of its own, the
\* override's Authorize invoked
C5_Witness ==
  \E c \in Calls :
    /\ call[c].pc = "perform"
    /\ call[c].auth /= Nil /\ client.auth /= Nil /\ call[c].auth /= client.auth
    /\ call[c].authorized = <<call[c].auth>>

\* C6: a call hands at most one request to the transport; a call that is
\* over and whose merge and authorization succeeded handed exactly one; when
\* the transport fails the call returns an HttpTransportError wrapping the
\* transport's error, with a nil payload, and the request was handed once.
C6_OneRoundTrip ==
  \A c \in Calls :
    /\ Len(call[c].sent) <= 1
    /\ (call[c].pc = "done" /\ PreSendOk(c)) =>
         /\ Len(call[c].sent) = 1
         /\ call[c].sent[1] = call[c].req
    /\ call[c].doErr /= Nil =>
         /\ call[c].pc = "done"
         /\ Len(call[c].sent) = 1
         /\ call[c].payload = Nil
         /\ call[c].err = [kind |-> "HttpTransportError", Err |-> call[c].doErr]

\* a call whose one dispatch failed in the transport
C6_Witness ==
  \E c \in Calls :
    /\ call[c].pc = "done"
    /\ call[c].doErr = [kind |-> "net.OpError"]
    /\ Len(call[c].sent) = 1

\* the endpoint of a call: the base URL followed by the method when the
\* method begins with '/', and the base URL, '/' and the method otherwise
ExpectedEndpoint(c) ==
  IF call[c].method[1] = "/"
    THEN client.baseurl \o call[c].method
    ELSE client.baseurl \o <<"/">> \o call[c].method

\* a URL text with every escape %20 read as the space it stands for
RECURSIVE PercentDecoded(_)
PercentDecoded(u) ==
  IF Len(u) >= 3 /\ SubSeq(u, 1, 3) = <<"%", "2", "0">>
    THEN <<" ">> \o PercentDecoded(SubSeq(u, 4, Len(u)))
  ELSE IF u = <<>> THEN <<>>
  ELSE <<Head(u)>> \o PercentDecoded(Tail(u))

\* C10 as stated: the URL of the request that is sent is the base URL
\* followed by the method when the method begins with '/', and the base
\* URL, '/' and the method otherwise, with no character inserted or removed.
C10_RequestURLIsEndpoint ==
  \A c \in Calls :
    \A i \in DOMAIN call[c].sent : call[c].sent[i].URL = ExpectedEndpoint(c)

\* C10: the URL that merge resolves has the scheme, authority and path of
\* the base URL followed by the method when the method begins with '/', and
\* of the base URL, '/' and the method otherwise; the URL of the request that
\* is sent is that endpoint in escaped form: it has no space, reads back as
\* the endpoint, and is the endpoint itself when the endpoint has no space.
C10_EndpointResolution ==
  \A c \in Calls :
    /\ call[c].uri /= Nil => call[c].uri.Origin \o call[c].uri.Path = ExpectedEndpoint(c)
    /\ \A i \in DOMAIN call[c].sent :
         LET URL == call[c].sent[i].URL
         IN  /\ \A j \in DOMAIN URL : URL[j] /= " "
             /\ PercentDecoded(URL) = ExpectedEndpoint(c)
             /\ (\A j \in DOMAIN ExpectedEndpoint(c) : ExpectedEndpoint(c)[j] /= " ")
                  => URL = ExpectedEndpoint(c)

\* a request sent for a method that does not begin with '/' and has a space
C10_Witness ==
  \E c \in Calls :
    /\ Len(call[c].sent) = 1
    /\ call[c].method = <<"m", " ">>
    /\ call[c].sent[1].URL = client.baseurl \o <<"/", "m", "%", "2", "0">>

Min(S) == CHOOSE x \in S : \A y \in S : x <= y
Max(S) == CHOOSE x \in S : \A y \in S : x >= y

\* the media type of a Content-Type value: what stands before its first ';',
\* from the first to the last position that is not white space
MediaType(v) ==
  LET semis == {i \in 1..Len(v) : v[i] = ";"}
      cut == IF semis = {} THEN Len(v) ELSE Min(semis) - 1
      solid == {i \in 1..cut : v[i] \notin {" ", "\t"}}
  IN  IF solid = {} THEN <<>> ELSE SubSeq(v, Min(solid), Max(solid))

\* the call handed its request to the transport and is over
Dispatched(c) == call[c].pc = "done" /\ Len(call[c].sent) = 1

\* the five outcomes of a dispatched call
TransportFailure(c) == call[c].err.kind = "HttpTransportError"
UnexpectedContentType(c) == call[c].err.kind = "ContentTypeError"
DecodeFailure(c) == call[c].err.kind = "JsonDecoderError"
RemoteFailure(c) == call[c].err.kind = "RemoteError"
Success(c) == call[c].err = Nil /\ call[c].payload /= Nil

\* what the response of a call is: JSON by its content type, a body that
\* decodes, a stat field that is the string "ok"
IsJSON(c) == MediaType(call[c].resp.ContentType) \in {<<"application/json">>, <<"text/json">>}
Decodes(c) == call[c].resp.Body.doc.kind /= "notjson"
StatOk(c) ==
  /\ call[c].resp.Body.doc.kind = "object"
  /\ call[c].resp.Body.doc.stat = [kind |-> "string", s |-> "ok"]

\* C7: a dispatched call ends in exactly one of TransportFailure,
\* UnexpectedContentType, DecodeFailure, RemoteFailure and Success; which one
\* is a function of the transport's error, the content type, whether the
\* body decodes and the stat field, the status code playing no part: Success
\* (the decoded document as payload, no error) iff the content type is JSON,
\* the body decodes and stat is the string "ok"; RemoteFailure iff the
\* content type is JSON, the body decodes and stat is anything else; a
\* payload is never returned together with an error.
C7_Classification ==
  \A c \in Calls :
    Dispatched(c) =>
      /\ Cardinality({i \in 1..5 :
                        <<TransportFailure(c), UnexpectedContentType(c), DecodeFailure(c),
                          RemoteFailure(c), Success(c)>>[i]}) = 1
      /\ ~(call[c].payload /= Nil /\ call[c].err /= Nil)
      /\ TransportFailure(c) <=> call[c].resp = Nil
      /\ call[c].resp /= Nil =>
           /\ Success(c) <=> (IsJSON(c) /\ Decodes(c) /\ StatOk(c))
           /\ Success(c) => call[c].payload = call[c].resp.Body.doc
           /\ RemoteFailure(c) <=> (IsJSON(c) /\ Decodes(c) /\ ~StatOk(c))
           /\ DecodeFailure(c) <=> (IsJSON(c) /\ ~Decodes(c))
           /\ UnexpectedContentType(c) <=> ~IsJSON(c)

\* a response with status 500 that is a Success, and the call is over
C7_Witness ==
  \E c \in Calls :
    /\ Dispatched(c)
    /\ call[c].resp /= Nil
    /\ call[c].resp.StatusCode = 500
    /\ call[c].resp.ContentType = <<"text/json">>
    /\ call[c].payload = OkDoc /\ call[c].err = Nil

CapturedResponse(c) ==
  [StatusCode |-> call[c].resp.StatusCode,
   Header |-> [k \in {"Content-Type"} |-> call[c].resp.ContentType],
   Body |-> call[c].resp.Body]

\* C9: the error of a call that ends in a decode failure, an unexpected
\* content type or a remote failure gives, through HttpResponse(), the
\* response data of that call: its status code, its headers and the bytes of
\* its body.
C9_ErrorsCarryResponse ==
  \A c \in Calls :
    (Dispatched(c) /\ (DecodeFailure(c) \/ UnexpectedContentType(c) \/ RemoteFailure(c))) =>
      HttpResponse(call[c].err) = CapturedResponse(c)

\* the lines key=value of form values, in the byte order of the texts
SortedLines(values) ==
  LET ks == SelectSeq(KeyOrder, LAMBDA k : k \in DOMAIN values)
  IN  [i \in DOMAIN ks |-> ks[i] \o "=" \o values[ks[i]]]

\* the Authorization header of ClientCredentials for a path, a timestamp and
\* form values: Signature <id>:<base64 of the HMAC-SHA1 under the secret of
\* the path, the timestamp and the sorted lines>
SignatureHeader(creds, path, timestamp, values) ==
  [kind |-> "Signature", id |-> creds.Id,
   sig |-> [kind |-> "base64-hmac-sha1", key |-> creds.Secret,
            msg |-> <<path, timestamp>> \o SortedLines(values)]]

\* C11: after ClientCredentials.Authorize the Authorization header is a
\* function of the URL path, the timestamp, the credentials and the set of
\* form pairs alone (the signing string is the path, the timestamp and the
\* lines key=value in sorted order), whatever order the form values were
\* visited in; the Date header is the timestamp that was signed; the pairs
\* signed are the pairs of the body of the request that is sent.
C11_SigningDeterministic ==
  \A c \in Calls :
    call[c].authorized = <<ClientCredentials>> =>
      /\ call[c].pc \in {"prepare", "perform"} =>
           /\ call[c].mheader["Date"].s \in Timestamps
           /\ call[c].mheader["Authorization"] =
                SignatureHeader(ClientCredentials, call[c].uri.Path,
                                call[c].mheader["Date"].s, call[c].values)
      /\ \A i \in DOMAIN call[c].sent :
           LET req == call[c].sent[i]
           IN  /\ req.Header["Authorization"] =
                    SignatureHeader(ClientCredentials, call[c].uri.Path,
                                    req.Header["Date"].s, req.Body)
               /\ req.Header["Authorization"].sig.msg[2] = req.Header["Date"].s
               /\ {req.Header["Authorization"].sig.msg[j] :
                     j \in 3..Len(req.Header["Authorization"].sig.msg)}
                    = {k \o "=" \o req.Body[k] : k \in DOMAIN req.Body}

\* a signed request with two form pairs, the key that sorts first given last
C11_Witness ==
  \E c \in Calls :
    /\ call[c].authorized = <<ClientCredentials>>
    /\ Len(call[c].sent) = 1
    /\ call[c].sent[1].Body = [k \in {"type_name", "client_id"} |->
                                 IF k = "type_name" THEN "user" ELSE "3"]
    /\ call[c].sent[1].Header["Authorization"].sig.msg =
         <<call[c].uri.Path, call[c].sent[1].Header["Date"].s,
           "client_id=3", "type_name=user">>

\* the operands in parentheses, adjacent ones joined by the keyword with a
\* space on each side
RECURSIVE Joined(_, _)
Joined(fs, keyword) ==
  IF Len(fs) = 1 THEN "(" \o fs[1] \o ")"
  ELSE "(" \o fs[1] \o ") " \o keyword \o " " \o Joined(Tail(fs), keyword)

\* C12: And of no filter is the empty string; And of one filter is that
\* filter's text unwrapped; And of two or more is every operand in
\* parentheses, adjacent operands joined by " AND "; Or does the same with OR.
C12_FilterComposition ==
  app.fn \in {"And", "Or"} =>
    LET fs == app.operands
        keyword == IF app.fn = "And" THEN "AND" ELSE "OR"
    IN  /\ Len(fs) = 0 => app.result = ""
        /\ Len(fs) = 1 => app.result = fs[1]
        /\ Len(fs) >= 2 => app.result = Joined(fs, keyword)

\* the message of an error that wraps another is the message of that one;
\* the message of a RemoteError is "[K] D"
WrappedAndRemoteMessages ==
  /\ app.err.kind \in {"JsonDecoderError", "HttpTransportError"} =>
       app.result = <<app.err.Err.msg>>
  /\ app.err.kind = "RemoteError" =>
       /\ app.result = <<"[", app.err.Kind, "] ", app.err.Description>>
       /\ \E i, j \in DOMAIN app.result :
            app.result[i] = app.err.Kind /\ app.result[j] = app.err.Description

RECURSIVE Unescaped(_)
Unescaped(text) ==
  IF text = <<>> THEN <<>>
  ELSE IF Head(text) = "\\" /\ Len(text) >= 2
    THEN <<text[2]>> \o Unescaped(SubSeq(text, 3, Len(text)))
  ELSE <<Head(text)>> \o Unescaped(Tail(text))

C15_FreshCopies ==
  [][call' /= call =>
       /\ client'.header = client.header
       /\ client'.params = client.params
       /\ \A c \in Calls :
            (call[c].pc /= "idle" /\ call'[c].pc /= "idle") =>
              /\ call'[c].header = call[c].header
              /\ call'[c].params = call[c].params]_vars

\* a call that sent Authorization, Content-Type and the caller's and the
\* client's headers, over, with none of the additions in the client's
\* defaults or in its arguments
C15_Witness ==
  \E c \in Calls :
    /\ call[c].pc = "done"
    /\ Len(call[c].sent) = 1
    /\ call[c].authorized = <<AccessToken>>
    /\ {"Authorization", "Content-Type", "X-Trace"} \subseteq DOMAIN call[c].sent[1].Header
    /\ DOMAIN client.header = {"X-Trace"}
    /\ DOMAIN call[c].header = {"X-Trace"}
    /\ call[c].header["X-Trace"] /= client.header["X-Trace"]
    /\ call[c].sent[1].Header["X-Trace"] = call[c].header["X-Trace"]
    /\ DOMAIN call[c].params = {"type_name"}

\* the request a call with these arguments dispatches when it runs alone on
\* the client cl: merge, the resolved strategy's Authorize, prepare, one
\* after the other with nothing in between
RequestAlone(cl, auth, method, header, params, timestamp) ==
  LET m == merge(cl, method, header, params)
      strategy == resolveAuth(auth, cl.auth)
      a == IF strategy = Nil
             THEN [header |-> m.header, values |-> m.values]
             ELSE Authorize(strategy, m.uri, m.header, m.values, timestamp,
                            CHOOSE o \in iterationOrders(m.values) : TRUE, FALSE)
  IN  prepare(m.uri, a.header, a.values).req

\* C14: when calls interleave on a client whose defaults no one changes,
\* the request a call hands to the transport is the request it would hand
\* over running alone (same URL, headers and form values), and the client,
\* the one state the calls share, is never written.
C14_ConcurrentCalls ==
  /\ client = ConcurrentClient
  /\ \A c \in DOMAIN call :
       \A i \in DOMAIN call[c].sent :
         \E timestamp \in Timestamps :
           call[c].sent[i] = RequestAlone(ConcurrentClient, call[c].auth, call[c].method,
                                          call[c].header, call[c].params, timestamp)

\* two calls in progress at once: one has its request built and waits for
\* the transport, the other, with another strategy and header, has merged
C14_Witness ==
  /\ call[1].pc = "perform"
  /\ call[1].authorized = <<AccessToken>>
  /\ call[2].pc = "done"
  /\ call[2].authorized = <<ClientCredentialsSimple>>
  /\ Len(call[2].sent) = 1
  /\ "client_secret" \in DOMAIN call[2].sent[1].Body
  /\ "client_secret" \notin DOMAIN call[1].req.Body
  /\ call[1].header /= call[2].header

\* a map with the given keys set to the given values and every other key
\* as it was
WithOnly(m, changes) ==
  [k \in DOMAIN m \cup DOMAIN changes |-> IF k \in DOMAIN changes THEN changes[k] ELSE m[k]]

\* C16: the step in which AccessToken.Authorize runs sets the header
\* Authorization to OAuth <token>, whatever was there, and leaves every
\* other header, the URL and the form values as they were, without an
\* error; the step in which ClientCredentialsSimple.Authorize runs sets the
\* form values client_id and client_secret to the id and the secret,
\* whatever was there, and leaves every other form value, the URL and the
\* headers as they were, without an error.
C16_StrategyFrames ==
  [][\A c \in Calls :
       (call[c].pc = "auth" /\ call'[c].pc /= "auth") =>
         /\ Resolved(c) = AccessToken =>
              /\ call'[c].pc = "prepare" /\ call'[c].authErr = Nil /\ call'[c].err = Nil
              /\ call'[c].mheader =
                   WithOnly(call[c].mheader,
                            [k \in {"Authorization"} |-> [kind |-> "OAuth", token |-> "tok"]])
              /\ call'[c].values = call[c].values
              /\ call'[c].uri = call[c].uri
         /\ Resolved(c) = ClientCredentialsSimple =>
              /\ call'[c].pc = "prepare" /\ call'[c].authErr = Nil /\ call'[c].err = Nil
              /\ call'[c].values =
                   WithOnly(call[c].values,
                            [k \in {"client_id", "client_secret"} |->
                               IF k = "client_id" THEN "myclientid" ELSE "myclientsecret"])
              /\ call'[c].mheader = call[c].mheader
              /\ call'[c].uri = call[c].uri]_vars

\* after AccessToken.Authorize on a header that had an Authorization value
\* of the caller and another header
C16_Witness ==
  \E c \in Calls :
    /\ call[c].pc = "prepare"
    /\ call[c].authorized = <<AccessToken>>
    /\ call[c].header = [k \in {"Authorization", "X-Trace"} |-> HdrVal("u")]
    /\ call[c].mheader["Authorization"] = [kind |-> "OAuth", token |-> "tok"]
    /\ call[c].mheader["X-Trace"] = HdrVal("u")
    /\ "client_id" \in DOMAIN call[c].values

\* C17: when a call in which the transport returned a response is over,
\* the body of the response has been closed, whether the call ends in
\* Success, RemoteFailure, DecodeFailure or UnexpectedContentType; a call
\* without a response has no body to close.
C17_BodyClosed ==
  \A c \in Calls :
    /\ (call[c].pc = "done" /\ call[c].resp /= Nil) => call[c].bodyClosed
    /\ call[c].bodyClosed => call[c].resp /= Nil

\* a call that ended in a content-type error and one could not tell from the
\* payload that the body was ever read
C17_Witness ==
  \E c \in Calls :
    /\ call[c].pc = "done"
    /\ call[c].resp /= Nil
    /\ call[c].err.kind = "ContentTypeError"
    /\ call[c].bodyClosed

\* the form value keys that a strategy sets itself
StrategyKeys(auth) ==
  IF auth.kind = "ClientCredentialsSimple" THEN {"client_id", "client_secret"} ELSE {}

\* the client's defaults are what the sequence of Default and DefaultClear
\* left: a key has a default exactly when its last operation was a Default,
\* and the default is the value that operation gave
DefaultsFollowSequence ==
  /\ DOMAIN client.params = {k \in DOMAIN lastDefault : lastDefault[k].op = "Default"}
  /\ \A k \in DOMAIN client.params : client.params[k] = lastDefault[k].value

\* the request Execute sent has, for the keys in keys that the call's
\* parameters do not contain, the form value of the most recent Default when
\* no DefaultClear came after it, and no value otherwise
SendsDefaults(c, keys) ==
  \A k \in keys \ DOMAIN call[c].params :
    LET B == call[c].sent[1].Body
    IN  IF lastDefault[k].op = "Default"
          THEN k \in DOMAIN B /\ B[k] = formValue(lastDefault[k].value).text
          ELSE k \notin DOMAIN B

\* C18 as stated: after any sequence of Default and DefaultClear, an Execute
\* whose call parameters do not contain k sends k with the value of the most
\* recent Default(k, _) when no DefaultClear(k) came after, and does not send
\* k otherwise, for every key k; the operations leave other keys alone.
C18_DefaultsEveryKey ==
  /\ DefaultsFollowSequence
  /\ \A c \in Calls : Dispatched(c) => SendsDefaults(c, DOMAIN lastDefault)

\* C18: the same, for every key k that the authorization strategy of the
\* call does not set itself (ClientCredentialsSimple sets client_id and
\* client_secret over whatever merge put there).
C18_DefaultSequences ==
  /\ DefaultsFollowSequence
  /\ \A c \in Calls :
       Dispatched(c) =>
         SendsDefaults(c, DOMAIN lastDefault \ StrategyKeys(Resolved(c)))

\* a dispatched call that sent the default of one key and nothing for
\* another key, whose default had been given and then cleared
C18_Witness ==
  \E c \in Calls :
    /\ Dispatched(c)
    /\ \E k1, k2 \in ParamKeys \ DOMAIN call[c].params :
         /\ lastDefault[k1].op = "Default"
         /\ call[c].sent[1].Body[k1] = formValue(lastDefault[k1].value).text
         /\ lastDefault[k2].op = "none"
         /\ k2 \notin DOMAIN call[c].sent[1].Body

\* C19: when prepare fails after merge and authorization succeeded, the
\* call goes on to end with that error and a nil payload, nothing having
\* been handed to the transport: it does not abort, and when it is over its
\* error is prepare's.
C19_PrepareFailureReported ==
  \A c \in Calls :
    call[c].prepErr /= Nil =>
      /\ call[c].pc /= "panic"
      /\ call[c].sent = <<>>
      /\ call[c].pc = "done" => (call[c].err = call[c].prepErr /\ call[c].payload = Nil)

\* C20: for every method path string, the empty string too, endpoint
\* resolution does not abort the program: no call is aborted before its
\* merge has produced an endpoint or an error.
C20_EndpointNeverAborts ==
  \A c \in Calls :
    ~(call[c].pc = "panic" /\ call[c].uri = Nil /\ call[c].mergeErr = Nil)

=============================================================================
